---- MODULE Spec2Model ----
(***************************************************************************)
(* The favourite-effect-names and expanded-folders settings of             *)
(* dfreds-convenient-effects (class Settings).  A JavaScript string is a   *)
(* sequence of one-character strings; game.settings is a function from the *)
(* setting key to the persisted raw string.                                *)
(***************************************************************************)
EXTENDS Naturals, Sequences, FiniteSets, TLC

\* ------------------------------------------------------------------ bounds
MaxMembers == 2     \* add is explored while its result has at most this many entries
MaxRawLen == 7      \* longest persisted raw value the parser is enumerated on
MaxCalls == 4       \* calls started while the steps of two callers interleave

\* -------------------------------------------------------------- characters
Delimiter == ";"
Whitespace == {" "}
Alphabet == {"a", "b", Delimiter, " "}

RECURSIVE StringsUpTo(_)
StringsUpTo(n) ==
    IF n = 0 THEN {<<>>}
    ELSE LET shorter == StringsUpTo(n - 1)
         IN  shorter \cup {Append(s, c) : s \in shorter, c \in Alphabet}

\* the raw values a persisted setting is enumerated over
RawValues == StringsUpTo(MaxRawLen)

\* ------------------------------------------------------------ setting keys
FAVORITE_EFFECT_NAMES == "favoriteEffectNames"
EXPANDED_FOLDERS == "expandedFolders"
Keys == {FAVORITE_EFFECT_NAMES, EXPANDED_FOLDERS}

\* the defaults given to game.settings.register
DefaultFavoriteEffectNames == <<>>
DefaultExpandedFolders == <<"F", "a", "v", "o", "r", "i", "t", "e", "s">>

\* The name arguments the callers pass: the empty name, a whitespace-only
\* name, two plain names and a name that holds the delimiter.
Names == { <<>>, <<" ">>, <<"a">>, <<"b">>, <<Delimiter, "a">> }

\* ------------------------------------------------- JavaScript string/array
\* String.prototype.split(';'): the segments between the delimiters, the
\* empty ones included; a string without delimiter is its own only segment.
RECURSIVE SplitFrom(_, _, _)
SplitFrom(s, i, cur) ==
    IF i > Len(s) THEN <<cur>>
    ELSE IF s[i] = Delimiter THEN <<cur>> \o SplitFrom(s, i + 1, <<>>)
    ELSE SplitFrom(s, i + 1, Append(cur, s[i]))

Split(s) == SplitFrom(s, 1, <<>>)

\* String.prototype.trim(): leading and trailing whitespace removed.
RECURSIVE TrimStart(_)
TrimStart(s) ==
    IF s # <<>> /\ Head(s) \in Whitespace THEN TrimStart(Tail(s)) ELSE s

RECURSIVE TrimEnd(_)
TrimEnd(s) ==
    IF s # <<>> /\ s[Len(s)] \in Whitespace
    THEN TrimEnd(SubSeq(s, 1, Len(s) - 1))
    ELSE s

Trim(s) == TrimEnd(TrimStart(s))

\* a string used as a condition: the empty string is falsy
Truthy(s) == Len(s) > 0

\* faulty variant: the filter tests the name itself, the trim forgotten
KeepUntrimmed(name) == Truthy(name)

\* the callback of .filter((name) => name.trim())
KeepName(name) == Truthy(Trim(name))

\* Array.prototype.includes
Includes(arr, x) == \E i \in 1..Len(arr) : arr[i] = x

\* [...new Set(arr)]: the values in the order of their first insertion
RECURSIVE SetSpread(_, _)
SetSpread(arr, seen) ==
    IF arr = <<>> THEN seen
    ELSE SetSpread(Tail(arr),
                   IF Includes(seen, Head(arr)) THEN seen
                   ELSE Append(seen, Head(arr)))

\* faulty variant: the values that occur once only (every repeated value dropped)
UniqueSingles(arr) ==
    LET Once(x) == Cardinality({i \in 1..Len(arr) : arr[i] = x}) = 1
    IN  SelectSeq(arr, Once)

\* faulty variant: the values in the order of their last occurrence
UniqueKeepLast(arr) ==
    LET Last(i) == \A j \in (i + 1)..Len(arr) : arr[j] # arr[i]
        Pick[n \in 0..Len(arr)] ==
            IF n = 0 THEN <<>>
            ELSE IF Last(n) THEN Append(Pick[n - 1], arr[n])
            ELSE Pick[n - 1]
    IN  Pick[Len(arr)]

Unique(arr) == SetSpread(arr, <<>>)

\* Array.prototype.join(';')
RECURSIVE Join(_)
Join(arr) ==
    IF arr = <<>> THEN <<>>
    ELSE IF Len(arr) = 1 THEN arr[1]
    ELSE arr[1] \o <<Delimiter>> \o Join(Tail(arr))

\* ------------------------------------------------------------------- state
VARIABLES
    settings,     \* game.settings: setting key -> persisted raw string
    returned,     \* the getter that ran last and the array it returned
    callers,      \* per caller: the call it is inside of and the array it read
    last,         \* the call that completed last: [op, key, name]
    before,       \* the raw value of last.key when that call started
    followsAdd,   \* the call before the last one was add, with the same key and name
    used,         \* the worst kind of name argument passed so far
    inserted,     \* the run of adds to one empty collection: its key and names
    acked,        \* per key: the names whose add was written and no remove or clear since
    overlap,      \* per key: the last write was computed from a value read before another write
    started       \* the number of calls started so far by interleaving callers

vars ==
    <<settings, returned, callers, last, before, followsAdd, used, inserted,
      acked, overlap, started>>

\* --------------------------------------------------------- class Settings
\* get favoriteEffectNames / get expandedFolders, on a given raw value
ParseNames(raw) == SelectSeq(Split(raw), KeepName)

favoriteEffectNames == ParseNames(settings[FAVORITE_EFFECT_NAMES])
expandedFolders == ParseNames(settings[EXPANDED_FOLDERS])

\* faulty variant: the array that was read is dropped, the name alone is kept
AddedArrayNameOnly(array, name) == <<name>>

\* faulty variant: unshift(name) in place of push(name)
AddedArrayUnshift(array, name) == Unique(<<name>> \o array)

\* addFavoriteEffect / addExpandedFolder: push(name), then [...new Set(array)]
AddedArray(array, name) == Unique(Append(array, name))

\* faulty variant: the name is appended to the raw string itself
AddedRawConcat(raw, name) == raw \o <<Delimiter>> \o name

\* the raw value addFavoriteEffect / addExpandedFolder writes
AddedRaw(raw, name) == Join(AddedArray(ParseNames(raw), name))

\* faulty variant: === in place of !==
SameName(name, entry) == entry = name

\* the callback of removeFavoriteEffect / removeExpandedFolder's filter
NotName(name, entry) == entry # name

\* faulty variant: splice(indexOf(name), 1), which drops the last entry when
\* indexOf finds nothing and returns -1
RemovedArraySplice(array, name) ==
    LET found == {i \in 1..Len(array) : array[i] = name}
        at == IF found = {} THEN Len(array)
              ELSE CHOOSE i \in found : \A j \in found : i <= j
    IN  [i \in 1..(IF array = <<>> THEN 0 ELSE Len(array) - 1) |->
            IF i < at THEN array[i] ELSE array[i + 1]]

RemovedArray(array, name) ==
    LET Keep(entry) == NotName(name, entry)
    IN  SelectSeq(array, Keep)

\* the raw value removeFavoriteEffect / removeExpandedFolder writes
RemovedRaw(raw, name) == Join(RemovedArray(ParseNames(raw), name))

\* faulty variant: clear resets to the registered default
ClearedRawDefault == DefaultExpandedFolders

\* the raw value clearExpandedFolders writes
ClearedRaw == <<>>

isFavoritedEffect(name) == Includes(favoriteEffectNames, name)
isFolderExpanded(name) == Includes(expandedFolders, name)

\* ------------------------------------------------------ history variables
HasDelimiter(name) == \E i \in 1..Len(name) : name[i] = Delimiter

NoCall == [op |-> "register", key |-> "none", name |-> <<>>]
Untracked == [key |-> "none", names |-> <<>>]
Idle ==
    [pc |-> "idle", op |-> "none", key |-> "none", name |-> <<>>,
     array |-> <<>>, stale |-> FALSE]

Callers == {"first", "second"}

UsedAfter(kind, name) ==
    IF HasDelimiter(name) \/ kind = "delimiter" THEN "delimiter"
    ELSE IF ~KeepName(name) \/ kind = "blank" THEN "blank"
    ELSE "plain"

\* a run starts with an add to a collection whose read() is empty and goes
\* on with adds of further non-empty names without delimiter to the same key
InsertedAfterAdd(key, name) ==
    IF name = <<>> \/ HasDelimiter(name) THEN Untracked
    ELSE IF ParseNames(settings[key]) = <<>>
         THEN [key |-> key, names |-> <<name>>]
    ELSE IF inserted.key = key /\ ~Includes(inserted.names, name)
         THEN [inserted EXCEPT !.names = Append(@, name)]
    ELSE Untracked

Completed(op, key, name) ==
    /\ last' = [op |-> op, key |-> key, name |-> name]
    /\ before' = settings[key]
    /\ followsAdd' = (last = [op |-> "add", key |-> key, name |-> name])

RegisteredSettings ==
    [k \in Keys |->
        IF k = FAVORITE_EFFECT_NAMES THEN DefaultFavoriteEffectNames
        ELSE DefaultExpandedFolders]

InitWith(stored) ==
    /\ settings = stored
    /\ returned = [key |-> "none", value |-> <<>>]
    /\ callers = [c \in Callers |-> Idle]
    /\ last = NoCall
    /\ before = <<>>
    /\ followsAdd = FALSE
    /\ used = "plain"
    /\ inserted = Untracked
    /\ acked = [k \in Keys |-> {}]
    /\ overlap = [k \in Keys |-> FALSE]
    /\ started = 0

\* registerSettings: every key holds its registered default
Init == InitWith(RegisteredSettings)

\* ------------------------------------------------- calls run to completion
Add(key, name) ==
    /\ Len(ParseNames(AddedRaw(settings[key], name))) <= MaxMembers
    /\ settings' = [settings EXCEPT ![key] = AddedRaw(@, name)]
    /\ Completed("add", key, name)
    /\ used' = UsedAfter(used, name)
    /\ inserted' = InsertedAfterAdd(key, name)
    /\ UNCHANGED <<returned, callers, acked, overlap, started>>

Remove(key, name) ==
    /\ settings' = [settings EXCEPT ![key] = RemovedRaw(@, name)]
    /\ Completed("remove", key, name)
    /\ used' = UsedAfter(used, name)
    /\ inserted' = Untracked
    /\ UNCHANGED <<returned, callers, acked, overlap, started>>

addFavoriteEffect(name) == Add(FAVORITE_EFFECT_NAMES, name)
removeFavoriteEffect(name) == Remove(FAVORITE_EFFECT_NAMES, name)
addExpandedFolder(name) == Add(EXPANDED_FOLDERS, name)
removeExpandedFolder(name) == Remove(EXPANDED_FOLDERS, name)

clearExpandedFolders ==
    /\ settings' = [settings EXCEPT ![EXPANDED_FOLDERS] = ClearedRaw]
    /\ Completed("clear", EXPANDED_FOLDERS, <<>>)
    /\ inserted' = Untracked
    /\ UNCHANGED <<returned, callers, used, acked, overlap, started>>

Next ==
    \/ \E name \in Names : addFavoriteEffect(name)
    \/ \E name \in Names : removeFavoriteEffect(name)
    \/ \E name \in Names : addExpandedFolder(name)
    \/ \E name \in Names : removeExpandedFolder(name)
    \/ clearExpandedFolders

Spec == Init /\ [][Next]_vars

\* --------------------------------------- the getters, on any persisted value
\* a raw value that an earlier session or other code left under one key
InitStored ==
    \E key \in Keys, raw \in RawValues :
        InitWith([RegisteredSettings EXCEPT ![key] = raw])

getFavoriteEffectNames ==
    /\ returned' = [key |-> FAVORITE_EFFECT_NAMES, value |-> favoriteEffectNames]
    /\ UNCHANGED <<settings, callers, last, before, followsAdd, used, inserted,
                   acked, overlap, started>>

getExpandedFolders ==
    /\ returned' = [key |-> EXPANDED_FOLDERS, value |-> expandedFolders]
    /\ UNCHANGED <<settings, callers, last, before, followsAdd, used, inserted,
                   acked, overlap, started>>

NextRead == getFavoriteEffectNames \/ getExpandedFolders

SpecRead == InitStored /\ [][NextRead]_vars

\* ----------------------------- two callers whose get and set steps interleave
\* the names the callers pass here: the ones read() gives back as they are
PlainNames == {name \in Names : KeepName(name) /\ ~HasDelimiter(name)}

\* the first statement of add / remove: this.favoriteEffectNames (or
\* this.expandedFolders) is read into the local array
ReadArray(c, op, key, name) ==
    /\ callers[c].pc = "idle"
    /\ started < MaxCalls
    /\ started' = started + 1
    /\ op = "add" => Len(AddedArray(ParseNames(settings[key]), name)) <= MaxMembers
    /\ callers' = [callers EXCEPT ![c] =
                      [pc |-> "set", op |-> op, key |-> key, name |-> name,
                       array |-> ParseNames(settings[key]), stale |-> FALSE]]
    /\ UNCHANGED <<settings, returned, last, before, followsAdd, used, inserted,
                   acked, overlap>>

\* every other caller that holds an array read from key now holds an old one
Outdated(c, key) ==
    [d \in Callers |->
        IF d = c THEN Idle
        ELSE IF callers[d].pc = "set" /\ callers[d].key = key
             THEN [callers[d] EXCEPT !.stale = TRUE]
        ELSE callers[d]]

\* the last statement of add / remove: game.settings.set of the joined array
WriteArray(c) ==
    LET call == callers[c]
        array == IF call.op = "add" THEN AddedArray(call.array, call.name)
                 ELSE RemovedArray(call.array, call.name)
    IN  /\ call.pc = "set"
        /\ settings' = [settings EXCEPT ![call.key] = Join(array)]
        /\ callers' = Outdated(c, call.key)
        /\ acked' = [acked EXCEPT ![call.key] =
                        IF call.op = "add" THEN @ \cup {call.name}
                        ELSE @ \ {call.name}]
        /\ overlap' = [overlap EXCEPT ![call.key] = call.stale]
        /\ UNCHANGED <<returned, last, before, followsAdd, used, inserted, started>>

\* clearExpandedFolders is one game.settings.set
WriteCleared ==
    /\ started < MaxCalls
    /\ started' = started + 1
    /\ settings' = [settings EXCEPT ![EXPANDED_FOLDERS] = ClearedRaw]
    /\ callers' = [d \in Callers |->
                      IF callers[d].pc = "set" /\ callers[d].key = EXPANDED_FOLDERS
                      THEN [callers[d] EXCEPT !.stale = TRUE]
                      ELSE callers[d]]
    /\ acked' = [acked EXCEPT ![EXPANDED_FOLDERS] = {}]
    /\ overlap' = [overlap EXCEPT ![EXPANDED_FOLDERS] = FALSE]
    /\ UNCHANGED <<returned, last, before, followsAdd, used, inserted>>

NextInterleaved ==
    \/ \E c \in Callers, key \in Keys, name \in PlainNames :
          ReadArray(c, "add", key, name)
    \/ \E c \in Callers, key \in Keys, name \in PlainNames :
          ReadArray(c, "remove", key, name)
    \/ \E c \in Callers : WriteArray(c)
    \/ WriteCleared

SpecInterleaved == Init /\ [][NextInterleaved]_vars

\* ------------------------------------------------------------------ claims
Range(arr) == {arr[i] : i \in 1..Len(arr)}
NoRepeats(arr) == \A i, j \in 1..Len(arr) : arr[i] = arr[j] => i = j
Members(key) == ParseNames(settings[key])

\* the entries of arr that no earlier entry equals, in their order
FirstOccurrences(arr) ==
    LET First(i) == \A j \in 1..(i - 1) : arr[j] # arr[i]
        firsts == {i \in 1..Len(arr) : First(i)}
        Pick[n \in 0..Len(arr)] ==
            IF n = 0 THEN <<>>
            ELSE IF n \in firsts THEN Append(Pick[n - 1], arr[n])
            ELSE Pick[n - 1]
    IN  Pick[Len(arr)]

Plain(name) == name # <<>> /\ ~HasDelimiter(name)
NotBlank(name) == \E i \in 1..Len(name) : name[i] \notin Whitespace

\* C1: in every state reached from the registered defaults by add, remove and
\* clear calls with arbitrary names, read() of either collection holds no
\* entry twice.
C1_NoDuplicates == \A key \in Keys : NoRepeats(Members(key))

\* C2 as stated: as long as no name argument held the delimiter, the raw value
\* of either collection is its read() joined with the delimiter.
C2_RawIsJoinedMembers_NoDelimiter ==
    used # "delimiter" => \A key \in Keys : settings[key] = Join(Members(key))

\* C2 amended: as long as every name argument was free of the delimiter and
\* neither empty nor whitespace-only, the raw value of either collection is
\* its read() joined with the delimiter.
C2_RawIsJoinedMembers ==
    used = "plain" => \A key \in Keys : settings[key] = Join(Members(key))

C2_Witness ==
    /\ used = "plain"
    /\ last.op = "remove"
    /\ Len(Members(FAVORITE_EFFECT_NAMES)) = 2
    /\ Len(Members(EXPANDED_FOLDERS)) = 2

\* C3 as stated: after a run of adds of distinct, non-empty names without
\* delimiter to an empty collection, read() is exactly those names in the
\* order they were added.
C3_RoundTrip_NonEmpty ==
    ( /\ inserted.key \in Keys
      /\ NoRepeats(inserted.names)
      /\ \A n \in Range(inserted.names) : Plain(n) )
    => Members(inserted.key) = inserted.names

\* C3 amended: the same for names that are also not whitespace-only.
C3_RoundTrip ==
    ( /\ inserted.key \in Keys
      /\ NoRepeats(inserted.names)
      /\ \A n \in Range(inserted.names) : Plain(n) /\ NotBlank(n) )
    => Members(inserted.key) = inserted.names

C3_Witness ==
    /\ inserted.key = EXPANDED_FOLDERS
    /\ inserted.names = << <<"b">>, <<"a">> >>
    /\ expandedFolders = << <<"b">>, <<"a">> >>

\* C4: a second add of the same name right after the first leaves the set of
\* entries of read() as the first add left it, whatever the name.
C4_AddIdempotent ==
    (last.op = "add" /\ followsAdd)
    => Range(Members(last.key)) = Range(ParseNames(before))

C4_Witness ==
    /\ last.op = "add"
    /\ followsAdd
    /\ HasDelimiter(last.name)
    /\ settings[last.key] # before

\* C5: after add(x) and then remove(x), contains(x) is false.
C5_RemovedIsNotContained ==
    (last.op = "remove" /\ followsAdd)
    => IF last.key = FAVORITE_EFFECT_NAMES
       THEN ~isFavoritedEffect(last.name)
       ELSE ~isFolderExpanded(last.name)

C5_Witness ==
    /\ last.op = "remove"
    /\ followsAdd
    /\ Includes(ParseNames(before), last.name)
    /\ Len(Members(last.key)) = 1

\* C6 as stated: remove of a name that read() does not hold leaves the raw
\* value as it was.  Stated for the runs in which no name argument held the
\* delimiter, where it fails as well.
C6_RemoveAbsentKeepsRaw ==
    ( /\ used # "delimiter"
      /\ last.op = "remove"
      /\ ~Includes(ParseNames(before), last.name) )
    => settings[last.key] = before

\* C6 amended: remove of a name that read() does not hold leaves read() as it
\* was (empty when it was empty) and writes read() joined with the delimiter.
C6_RemoveAbsentKeepsMembers ==
    (last.op = "remove" /\ ~Includes(ParseNames(before), last.name))
    => /\ Members(last.key) = ParseNames(before)
       /\ settings[last.key] = Join(ParseNames(before))

C6_Witness ==
    /\ last.op = "remove"
    /\ ~Includes(ParseNames(before), last.name)
    /\ Len(ParseNames(before)) = 2
    /\ settings[last.key] # before

\* C7: after clearExpandedFolders, whatever the collection held, the raw value
\* is the empty string and read() is empty.
C7_ClearEmpties ==
    last.op = "clear"
    => settings[EXPANDED_FOLDERS] = <<>> /\ expandedFolders = <<>>

C7_Witness ==
    /\ last.op = "clear"
    /\ before = DefaultExpandedFolders
    /\ expandedFolders = <<>>

\* C9 as stated: add of a name that read() already holds leaves read() and the
\* raw value as they were.  Stated for the runs in which no name argument held
\* the delimiter, where it fails as well.
C9_ReAddKeepsRaw ==
    ( /\ used # "delimiter"
      /\ last.op = "add"
      /\ Includes(ParseNames(before), last.name) )
    => /\ Members(last.key) = ParseNames(before)
       /\ settings[last.key] = before

\* C9 amended: add of a name that read() already holds moves nothing: read()
\* becomes the first occurrences of its former entries, in their order, and the
\* raw value those entries joined with the delimiter.
C9_ReAddKeepsOrder ==
    (last.op = "add" /\ Includes(ParseNames(before), last.name))
    => /\ Members(last.key) = FirstOccurrences(ParseNames(before))
       /\ settings[last.key] = Join(FirstOccurrences(ParseNames(before)))

C9_Witness ==
    /\ last = [op |-> "add", key |-> FAVORITE_EFFECT_NAMES, name |-> <<"a">>]
    /\ before = <<"a", Delimiter, "b">>
    /\ settings[FAVORITE_EFFECT_NAMES] = <<"a", Delimiter, "b">>
    /\ favoriteEffectNames = << <<"a">>, <<"b">> >>

\* the segments of raw between its delimiters that hold a character other
\* than whitespace, in their order: segment p runs from after the cut at p
\* to before the next cut
NonBlankSegments(raw) ==
    LET cuts == {0, Len(raw) + 1} \cup {i \in 1..Len(raw) : raw[i] = Delimiter}
        NextCut(p) == CHOOSE q \in cuts : q > p /\ \A r \in cuts : r > p => q <= r
        Segment(p) == [i \in 1..(NextCut(p) - p - 1) |-> raw[p + i]]
        Take[n \in 0..(Len(raw) + 1)] ==
            IF n = 0 THEN <<>>
            ELSE IF (n - 1) \in cuts /\ NotBlank(Segment(n - 1))
                 THEN Append(Take[n - 1], Segment(n - 1))
            ELSE Take[n - 1]
    IN  Take[Len(raw) + 1]

\* C8: whatever the persisted raw value, read() returns exactly its segments
\* between delimiters that are neither empty nor whitespace-only, in their
\* order and untrimmed.
C8_ReadIsNonBlankSegments ==
    returned.key \in Keys
    => returned.value = NonBlankSegments(settings[returned.key])

C8_Witness ==
    /\ settings[FAVORITE_EFFECT_NAMES]
          = <<"a", Delimiter, Delimiter, " ", " ", Delimiter, "b">>
    /\ returned = [key |-> FAVORITE_EFFECT_NAMES, value |-> << <<"a">>, <<"b">> >>]
\* an acknowledged name that read() does not hold
Lost(key) == \E name \in acked[key] : ~Includes(Members(key), name)

====
